---- MODULE Spec2Model ----
(***************************************************************************)
(* line-to-email (src/index.ts): a relay between a chat platform and       *)
(* email.  POST /webhook forwards each chat event of a batch as an email   *)
(* (textEventHandler), POST /email forwards a multipart form submission as *)
(* a sequence of chat messages pushed to a fixed group.                    *)
(*                                                                         *)
(* One behaviour of the model is the life of one request.  Every await of  *)
(* the source is a point where the handler is suspended; the step that     *)
(* resumes it runs the synchronous code up to the next await, including    *)
(* the promise continuations (microtasks) that this code makes runnable.   *)
(*                                                                         *)
(* The module has to be ASCII, so the Japanese string literals of the      *)
(* source are written in romaji; each definition names its literal.        *)
(* A message body (msg.text) is the sequence of its lines: the template    *)
(* `${msg.text}\n\n${x}` appends an empty line and the line x.             *)
(***************************************************************************)
EXTENDS Integers, Sequences, FiniteSets, TLC

\* ------------------------------------------------------------------ bounds
\* the longest webhook batch (req.body.events)
MaxEvents == 3
\* the largest number of files in a form submission (req.files)
MaxFiles == 2

\* ------------------------------------------------------------- string data
\* "さん" (index.ts:92)
San == "san"
\* "ユーザー" (index.ts:93)
GenericUser == "yuuzaa"
\* "からのメッセージ" (index.ts:94)
FromMessage == " kara no messeeji"
\* "画像メッセージ" (index.ts:122)
LabelImage == "gazou messeeji"
\* "動画メッセージ" (index.ts:128)
LabelVideo == "douga messeeji"
\* "音声メッセージ" (index.ts:134)
LabelAudio == "onsei messeeji"
\* "ファイルメッセージ" (index.ts:140)
LabelFile == "fairu messeeji"
\* "スタンプ" (index.ts:146)
LabelSticker == "sutanpu"
\* "新着メッセージ" (index.ts:89)
Subject == "shinchaku messeeji"

\* a value that is not there (undefined / null)
Undefined == "undefined"

\* TOEMAIL with whitespace removed, split at commas (index.ts:32-33)
toEmailArray == <<"a@example.com", "b@example.com">>

\* ------------------------------------------------------------ base64
RECURSIVE Base64(_)
\* Buffer.toString("base64"): three bytes give four 6-bit digits; a last
\* group of one or two bytes is padded with "=" (written 64).
Base64NoPad(bytes) ==
    IF Len(bytes) = 0 THEN <<>>
    ELSE IF Len(bytes) = 1 THEN
        << bytes[1] \div 4, (bytes[1] % 4) * 16 >>
    ELSE IF Len(bytes) = 2 THEN
        << bytes[1] \div 4,
           (bytes[1] % 4) * 16 + bytes[2] \div 16,
           (bytes[2] % 16) * 4 >>
    ELSE
        << bytes[1] \div 4,
           (bytes[1] % 4) * 16 + bytes[2] \div 16,
           (bytes[2] % 16) * 4 + bytes[3] \div 64,
           bytes[3] % 64 >>

Base64(bytes) ==
    IF Len(bytes) = 0 THEN <<>>
    ELSE IF Len(bytes) = 1 THEN Base64NoPad(bytes) \o <<64, 64>>
    ELSE IF Len(bytes) = 2 THEN Base64NoPad(bytes) \o <<64>>
    ELSE Base64NoPad(SubSeq(bytes, 1, 3)) \o Base64(SubSeq(bytes, 4, Len(bytes)))

RECURSIVE Base64Decode(_)
\* the bytes a base64 text stands for (the reading a mail client does)
Base64Decode(digits) ==
    IF Len(digits) < 4 THEN <<>>
    ELSE LET d == SubSeq(digits, 1, 4)
             b1 == d[1] * 4 + d[2] \div 16
             b2 == (d[2] % 16) * 16 + d[3] \div 4
             b3 == (d[3] % 4) * 64 + d[4]
             rest == Base64Decode(SubSeq(digits, 5, Len(digits)))
         IN  IF d[3] = 64 THEN <<b1>>
             ELSE IF d[4] = 64 THEN <<b1, b2>>
             ELSE <<b1, b2, b3>> \o rest

\* ------------------------------------------------ collaborators' answers
\* the users the chat platform knows and the ids of stored message contents
UserIds == {"U1", "U2"}
MessageIds == {"m1", "m2", "m3", "m4"}

\* client.getProfile(userId), when it answers (index.ts:92)
getProfile(userId) ==
    [displayName |-> IF userId = "U1" THEN "Alice" ELSE "Bob"]

\* the response of the content endpoint for a message id, when the fetch
\* answers: its Content-Type header (Undefined: no header) and its body
\* (index.ts:55-62)
fetch(eventMessageId) ==
    CASE eventMessageId = "m1" ->
            [contentType |-> "image/jpeg", body |-> <<255, 216, 255>>]
      [] eventMessageId = "m2" ->
            [contentType |-> "video/mp4", body |-> <<0, 0, 0, 24>>]
      [] eventMessageId = "m3" ->
            [contentType |-> Undefined, body |-> <<>>]
      [] OTHER ->
            [contentType |-> "application/pdf", body |-> <<37, 80>>]

\* mime.extension(type): the extension of a known type, false otherwise
mimeExtension(type) ==
    CASE type = "image/jpeg" -> "jpeg"
      [] type = "video/mp4" -> "mp4"
      [] type = "application/pdf" -> "pdf"
      [] OTHER -> "false"

\* getContent (index.ts:54-73), given the answer of fetch
getContent(eventMessageId) ==
    LET res == fetch(eventMessageId)
        fileType == IF res.contentType = Undefined THEN "" ELSE res.contentType
        ext == mimeExtension(fileType)
    IN  [fileType |-> fileType,
         fileExtname |-> IF ext = "false" THEN "" ELSE ext,
         file |-> res.body]

\* ------------------------------------------------------- webhook inputs
MessageKinds == {"text", "image", "video", "audio", "file", "sticker", "location"}
MediaKinds == {"image", "video", "audio", "file"}
Texts == {"hello", LabelSticker}

Event(type, userId, kind, id, text) ==
    [type |-> type,
     source |-> [userId |-> userId],
     message |-> [type |-> kind, id |-> id, text |-> text]]

\* every shape of one event: a non-message event, and a message event of each
\* kind, from a known user or from a source without a user id
EventInputs ==
    {Event("follow", u, "none", "m1", "") : u \in UserIds \cup {Undefined}}
    \cup {Event("message", u, k, id, "") :
            u \in UserIds \cup {Undefined}, k \in MediaKinds, id \in MessageIds}
    \cup {Event("message", u, k, "m1", "") :
            u \in UserIds \cup {Undefined}, k \in {"sticker", "location"}}
    \cup {Event("message", u, "text", "m1", t) :
            u \in UserIds \cup {Undefined}, t \in Texts}

\* the events of the batches of two or more: a handler that awaits the
\* profile and the send, one that awaits the content and the send, one that
\* awaits the profile, the content and the send, and one that awaits nothing
BatchEventInputs ==
    { Event("message", "U1", "text", "m1", "hello"),
      Event("message", Undefined, "image", "m1", ""),
      Event("message", "U2", "video", "m2", ""),
      Event("follow", "U1", "none", "m1", "") }

RECURSIVE SeqsUpTo(_, _)
SeqsUpTo(S, n) ==
    IF n = 0 THEN {<<>>}
    ELSE LET shorter == SeqsUpTo(S, n - 1)
         IN  shorter \cup {Append(q, x) : q \in {r \in shorter : Len(r) = n - 1}, x \in S}

\* req.body.events of one delivery (index.ts:179)
Batches ==
    {<<e>> : e \in EventInputs} \cup SeqsUpTo(BatchEventInputs, MaxEvents)

\* --------------------------------------------------- textEventHandler
\* msg as first built (index.ts:86-95); who is "<displayName>san" or GenericUser
NewMsg(who) ==
    [to |-> toEmailArray,
     from |-> [email |-> "line@line-to-email.futa.io", name |-> "line-to-email"],
     subject |-> Subject,
     text |-> <<who \o FromMessage>>,
     attachments |-> <<>>]

\* the handler's msg before the declaration of index.ts:86 is complete
NoMsg == [NewMsg("") EXCEPT !.text = <<>>]

\* `${msg.text}\n\n${line}` (index.ts:99-101 and the like)
AppendLine(m, line) == [m EXCEPT !.text = @ \o <<"", line>>]

\* a slip that lets the default clause go on to the send
SwitchDefaultSends(event, m) ==
    CASE event.message.type = "text" ->
            [pc |-> "send", msg |-> AppendLine(m, event.message.text)]
      [] event.message.type \in {"image", "video", "audio", "file"} ->
            [pc |-> "getContent", msg |-> m]
      [] event.message.type = "sticker" ->
            [pc |-> "send", msg |-> AppendLine(m, LabelSticker)]
      [] OTHER ->
            [pc |-> "send", msg |-> m]

\* the switch on event.message.type as entered (index.ts:97-151): where the
\* handler is next and the msg it has then.  The first clause whose label
\* matches is taken: for the four media kinds that is the group of
\* index.ts:104-107, which awaits getContent.
Switch(event, m) ==
    CASE event.message.type = "text" ->
            [pc |-> "send", msg |-> AppendLine(m, event.message.text)]
      [] event.message.type \in {"image", "video", "audio", "file"} ->
            [pc |-> "getContent", msg |-> m]
      [] event.message.type = "sticker" ->
            [pc |-> "send", msg |-> AppendLine(m, LabelSticker)]
      [] OTHER ->
            [pc |-> "resolved", msg |-> m]

\* the line appended after the attachment is built: the group of
\* index.ts:104-117 has no break, so control falls into the next clause, the
\* second `case "image":` (index.ts:119-123), whatever the kind was; the
\* clauses of index.ts:125-141 repeat labels already matched and never run.
FallthroughLabel(kind) == LabelImage

\* a slip that swaps the attachment's type and filename
AttachContentSwapped(event, m, content) ==
    [pc |-> "send",
     msg |-> AppendLine(
               [m EXCEPT !.attachments =
                    << [content |-> Base64(content.file),
                        type |-> content.fileExtname,
                        filename |-> content.fileType] >>],
               FallthroughLabel(event.message.type))]

\* the switch resumed when getContent has answered (index.ts:108-123)
AttachContent(event, m, content) ==
    [pc |-> "send",
     msg |-> AppendLine(
               [m EXCEPT !.attachments =
                    << [content |-> Base64(content.file),
                        type |-> content.fileType,
                        filename |-> content.fileExtname] >>],
               FallthroughLabel(event.message.type))]

\* a slip that leaves out the check of event.type
StartUnchecked(event) ==
    IF event.source.userId # Undefined
    THEN [pc |-> "getProfile", msg |-> NoMsg]
    ELSE Switch(event, NewMsg(GenericUser))

\* textEventHandler from its entry to its first await (index.ts:80-97)
Start(event) ==
    IF event.type # "message" THEN [pc |-> "resolved", msg |-> NoMsg]
    ELSE IF event.source.userId # Undefined
         THEN [pc |-> "getProfile", msg |-> NoMsg]
         ELSE Switch(event, NewMsg(GenericUser))

\* a slip that greets every user with the generic name
AfterProfileGeneric(event) ==
    Switch(event, NewMsg(GenericUser))

\* textEventHandler resumed when getProfile has answered (index.ts:90-97)
AfterProfile(event) ==
    Switch(event, NewMsg(getProfile(event.source.userId).displayName \o San))

\* ------------------------------------------------------------------ state
VARIABLES
    route,        \* the endpoint of the request: "webhook" or "email"
    sigValid,     \* does the request carry a valid platform signature
    events,       \* req.body.events
    hpc,          \* the /webhook handler: "start", "awaitAll" (index.ts:182),
                  \* "done" (returned), "rejected" (threw), "unauthorized"
    evpc,         \* per event, its map callback: awaiting "getProfile",
                  \* "getContent" or "send"; settled as "resolved" (undefined),
                  \* "returnedRes" (the value of index.ts:192) or "rejected"
    msg,          \* per event, the msg of textEventHandler
    thrown,       \* per event, the call that threw, or Undefined
    results,      \* per event, the value Promise.all holds for it
    profileCalls, \* per event, the user ids its handler gave client.getProfile
    contentCalls, \* per event, the message ids its handler gave getContent
    sendCalls,    \* per event, the msgs its handler gave sgMail.send
    writes,       \* the calls of res.json on the request's response object:
                  \* the status each was to send, in order
    response,     \* what went to the caller: <<>> or one [status, body]
    form,         \* req.body and req.files of a form submission
    fpc,          \* the /email handler: "start", awaiting "fromBuffer", "save",
                  \* "makePublic", "parseBuffer" or "pushMessage", "done"
                  \* (returned), "rejected" (threw)
    fidx,         \* the index in req.files of the file being processed
    fileType,     \* the local fileType of the loop body (index.ts:226)
    messageArray, \* the local messageArray (index.ts:213)
    objects,      \* the objects of the bucket, in order of creation
    pidx,         \* the index in messageArray of the message being pushed
    pushCalls,    \* the calls of client.pushMessage, in order
    pushed,       \* the messages whose push has answered, in order
    fthrown       \* the awaited call of the /email handler that threw, or
                  \* Undefined

webhookVars ==
    <<sigValid, events, hpc, evpc, msg, thrown, results,
      profileCalls, contentCalls, sendCalls>>

emailVars ==
    <<form, fpc, fidx, fileType, messageArray, objects, pidx, pushCalls, pushed,
      fthrown>>

Indexes == 1 .. Len(events)

Awaiting(p) == p \in {"getProfile", "getContent", "send"}

\* The answer to a request the middleware turns away (index.ts:177): the
\* middleware hands an error to the framework, whose error handling answers
\* in place of the handler; index.ts has no error handler of its own.
SignatureRejection == [status |-> 500, body |-> [status |-> "signature validation failed"]]

\* res.status(500).json({status: "error"}) (index.ts:192-194)
ErrorResponse == [status |-> 500, body |-> [status |-> "error"]]

\* res.status(200).json({status: "success", results}) (index.ts:200-203)
SuccessResponse(rs) == [status |-> 200, body |-> [status |-> "success", results |-> rs]]

\* The catch clause of the map callback (index.ts:186-195), entered by event i
\* when a call of its handler threw: it writes a 500 response of its own.  On a
\* response that was already written res.json throws ("headers already sent"),
\* and the callback's promise rejects instead of holding res.
Catch(i, resp, wr) ==
    [writes |-> Append(wr, 500),
     response |-> IF resp = <<>> THEN <<ErrorResponse>> ELSE resp,
     pc |-> IF resp = <<>> THEN "returnedRes" ELSE "rejected"]

\* The handler after `await Promise.all(...)` (index.ts:182-203), run as soon
\* as the callbacks' promises allow it: Promise.all rejects with the first
\* rejection, and the handler with it; when every callback has resolved, the
\* handler calls res.json once more, which throws when a response was written
\* (and when results holds the response object, which JSON cannot encode).
Continue(pcs, rs, resp, wr, hp) ==
    IF hp # "awaitAll" THEN [hpc |-> hp, response |-> resp, writes |-> wr]
    ELSE IF \E i \in DOMAIN pcs : pcs[i] = "rejected"
         THEN [hpc |-> "rejected", response |-> resp, writes |-> wr]
    ELSE IF \A i \in DOMAIN pcs : pcs[i] \in {"resolved", "returnedRes"}
         THEN [hpc |-> IF resp = <<>> THEN "done" ELSE "rejected",
               response |-> IF resp = <<>> THEN <<SuccessResponse(rs)>> ELSE resp,
               writes |-> Append(wr, 200)]
    ELSE [hpc |-> hp, response |-> resp, writes |-> wr]

\* the calls a handler issues when it reaches position p
IssueProfile(log, event, p) ==
    IF p = "getProfile" THEN Append(log, event.source.userId) ELSE log

IssueContent(log, event, p) ==
    IF p = "getContent" THEN Append(log, event.message.id) ELSE log

IssueSend(log, p, m) ==
    IF p = "send" THEN Append(log, m) ELSE log

\* a slip that stops the batch at the first event that throws
RunnableUntilThrow(i, p) ==
    /\ evpc[i] = p
    /\ \A k \in Indexes : thrown[k] = Undefined

\* An event's callback runs on its own: it can resume whenever the call it
\* awaits has answered (events.map(async ...), index.ts:183)
Runnable(i, p) == evpc[i] = p

\* --------------------------------------------------------- POST /webhook
\* The request arrives.  The middleware (index.ts:177) turns away a request
\* whose signature is not valid; otherwise the handler starts every event's
\* callback, each running to its first await (index.ts:179-197).
Webhook ==
    /\ route = "webhook" /\ hpc = "start"
    /\ IF ~sigValid
       THEN /\ hpc' = "unauthorized"
            /\ response' = <<SignatureRejection>>
            /\ UNCHANGED <<evpc, msg, results, profileCalls, contentCalls,
                           sendCalls, writes>>
       ELSE LET pcs == [i \in Indexes |-> Start(events[i]).pc]
                rs == [i \in Indexes |->
                         IF pcs[i] = "resolved" THEN "undefined" ELSE "pending"]
                k == Continue(pcs, rs, response, writes, "awaitAll")
            IN  /\ evpc' = pcs
                /\ msg' = [i \in Indexes |-> Start(events[i]).msg]
                /\ results' = rs
                /\ profileCalls' = [i \in Indexes |-> IssueProfile(<<>>, events[i], pcs[i])]
                /\ contentCalls' = [i \in Indexes |-> IssueContent(<<>>, events[i], pcs[i])]
                /\ sendCalls' = [i \in Indexes |->
                                   IssueSend(<<>>, pcs[i], Start(events[i]).msg)]
                /\ hpc' = k.hpc
                /\ response' = k.response
                /\ writes' = k.writes
    /\ UNCHANGED <<route, sigValid, events, thrown, emailVars>>

\* Event i's callback resumes with r, the position and msg its handler has
\* reached, r.pc = "throw" when the awaited call failed; then the handler of
\* the request runs if the callbacks' promises allow it.
Resume(i, r, failed) ==
    LET c == Catch(i, response, writes)
        pci == IF r.pc = "throw" THEN c.pc ELSE r.pc
        pcs == [evpc EXCEPT ![i] = pci]
        rs == [results EXCEPT ![i] =
                 IF pci = "resolved" THEN "undefined"
                 ELSE IF pci = "returnedRes" THEN "res" ELSE @]
        k == IF r.pc = "throw"
             THEN Continue(pcs, rs, c.response, c.writes, hpc)
             ELSE Continue(pcs, rs, response, writes, hpc)
    IN  /\ evpc' = pcs
        /\ msg' = [msg EXCEPT ![i] = r.msg]
        /\ thrown' = [thrown EXCEPT ![i] = failed]
        /\ results' = rs
        /\ contentCalls' = [contentCalls EXCEPT ![i] = IssueContent(@, events[i], pci)]
        /\ sendCalls' = [sendCalls EXCEPT ![i] = IssueSend(@, pci, r.msg)]
        /\ hpc' = k.hpc
        /\ response' = k.response
        /\ writes' = k.writes
        /\ UNCHANGED <<route, sigValid, events, profileCalls, emailVars>>

Throw(i) == [pc |-> "throw", msg |-> msg[i]]

\* client.getProfile answers (index.ts:92)
ProfileReturns(i) ==
    /\ Runnable(i, "getProfile")
    /\ Resume(i, AfterProfile(events[i]), Undefined)

\* a slip that swallows the failure of client.getProfile and greets the
\* generic user instead
ProfileThrowsFallsBack(i) ==
    /\ Runnable(i, "getProfile")
    /\ Resume(i, Switch(events[i], NewMsg(GenericUser)), "getProfile")

\* client.getProfile fails
ProfileThrows(i) ==
    /\ Runnable(i, "getProfile")
    /\ Resume(i, Throw(i), "getProfile")

\* getContent answers (index.ts:108)
ContentReturns(i) ==
    /\ Runnable(i, "getContent")
    /\ Resume(i, AttachContent(events[i], msg[i], getContent(events[i].message.id)),
              Undefined)

\* the fetch of getContent fails
ContentThrows(i) ==
    /\ Runnable(i, "getContent")
    /\ Resume(i, Throw(i), "getContent")

\* sgMail.send answers: the handler returns (index.ts:155-156)
SendReturns(i) ==
    /\ Runnable(i, "send")
    /\ Resume(i, [pc |-> "resolved", msg |-> msg[i]], Undefined)

\* sgMail.send fails
SendThrows(i) ==
    /\ Runnable(i, "send")
    /\ Resume(i, Throw(i), "send")

\* ----------------------------------------------------- form inputs
\* the contents of the uploaded files
Buffers == {"jpg", "png", "mp4", "m4v", "mp4a", "m4a", "m4a0", "pdf", "txt"}

\* FileType.fromBuffer(file): the type the content shows, Undefined when it
\* shows none (index.ts:226)
FileTypeFromBuffer(buffer) ==
    CASE buffer = "jpg" -> [mime |-> "image/jpeg"]
      [] buffer = "png" -> [mime |-> "image/png"]
      [] buffer = "mp4" -> [mime |-> "video/mp4"]
      [] buffer = "m4v" -> [mime |-> "video/x-m4v"]
      [] buffer = "mp4a" -> [mime |-> "audio/mp4"]
      [] buffer \in {"m4a", "m4a0"} -> [mime |-> "audio/x-m4a"]
      [] buffer = "pdf" -> [mime |-> "application/pdf"]
      [] OTHER -> [mime |-> Undefined]

\* A number n of the program is written as the integer n * Unit, so that a
\* duration in seconds keeps four decimals; NoNumber is an undefined one.
Unit == 10000
NoNumber == -1

\* mm.parseBuffer(file), when it answers: format.duration in seconds
\* (index.ts:255)
parseBuffer(buffer) ==
    [format |-> [duration |-> CASE buffer = "mp4a" -> 3 * Unit
                                [] buffer = "m4a" -> 12345
                                [] OTHER -> NoNumber]]

\* req.files: each content under a declared type (the part's Content-Type),
\* and some contents under a second declared type as well
FileInputs ==
    [buffer : Buffers, originalname : {"a.bin"}, mimetype : {"text/plain"}]
    \cup [buffer : {"jpg", "m4a", "pdf"}, originalname : {"a.bin"},
          mimetype : {"image/jpeg"}]

FormInputs ==
    [from : {"x@example.com"}, subject : {"Hi"}, text : {"body"},
     files : SeqsUpTo(FileInputs, MaxFiles)]

\* ---------------------------------------------------------- POST /email
\* the first message (index.ts:213-221)
TextMessage(body) ==
    [type |-> "text",
     text |-> <<"From: " \o body.from, "Subject: " \o body.subject, "", body.text>>]

\* bucket.file(`line-to-email/${uuidv4()}-${fileName}`) (index.ts:229); the
\* n-th call of uuidv4 gives the token n
ObjectName(n, fileName) == <<"line-to-email/", n, "-", fileName>>

\* gcsFile.publicUrl() (index.ts:232)
publicUrl(name) == <<"https://storage.googleapis.com/bucket/">> \o name

\* metadata.format.duration ? metadata.format.duration * 1000 : 0
\* (index.ts:256-258)
Duration(metadata) ==
    IF metadata.format.duration = NoNumber \/ metadata.format.duration = 0
    THEN 0
    ELSE metadata.format.duration * 1000

\* a slip that puts new elements at the front of the array
ArrayUnshift(array, items) == items \o array

\* messageArray.push(...) (index.ts:237, 246, 260)
ArrayPush(array, items) == array \o items

\* a slip that lets the default clause push an image message
ClassifyDefaultImage(type, fileUrl) ==
    CASE type \in {"video/mp4", "video/x-m4v"} ->
            << [type |-> "video", originalContentUrl |-> fileUrl,
                previewImageUrl |-> fileUrl] >>
      [] OTHER ->
            << [type |-> "image", originalContentUrl |-> fileUrl,
                previewImageUrl |-> fileUrl] >>

\* a slip that leaves image/png out of the image clause
ClassifyJpegOnly(type, fileUrl) ==
    CASE type = "image/jpeg" ->
            << [type |-> "image", originalContentUrl |-> fileUrl,
                previewImageUrl |-> fileUrl] >>
      [] type \in {"video/mp4", "video/x-m4v"} ->
            << [type |-> "video", originalContentUrl |-> fileUrl,
                previewImageUrl |-> fileUrl] >>
      [] OTHER -> <<>>

\* the switch on fileType (index.ts:234-269) for the types that await
\* nothing: the messages pushed on messageArray
Classify(type, fileUrl) ==
    CASE type \in {"image/jpeg", "image/png"} ->
            << [type |-> "image", originalContentUrl |-> fileUrl,
                previewImageUrl |-> fileUrl] >>
      [] type \in {"video/mp4", "video/x-m4v"} ->
            << [type |-> "video", originalContentUrl |-> fileUrl,
                previewImageUrl |-> fileUrl] >>
      [] OTHER -> <<>>

\* the audio clause (index.ts:253-265), when parseBuffer has answered
AudioMessage(fileUrl, metadata) ==
    [type |-> "audio", originalContentUrl |-> fileUrl, duration |-> Duration(metadata)]

IsAudio(type) == type \in {"audio/mp4", "audio/x-m4a"}

\* the object of the file being processed
CurrentName == ObjectName(fidx, form.files[fidx].originalname)

\* The loop over req.files goes on with the next file, or ends: then the
\* loop over messageArray (index.ts:275-277) calls pushMessage for the first
\* message, ma being messageArray as it is now.
NextFile(ma) ==
    /\ messageArray' = ma
    /\ IF fidx < Len(form.files)
       THEN /\ fidx' = fidx + 1
            /\ fpc' = "fromBuffer"
            /\ UNCHANGED <<pidx, pushCalls>>
       ELSE /\ fpc' = "pushMessage"
            /\ pidx' = 1
            /\ pushCalls' = Append(pushCalls, ma[1])
            /\ UNCHANGED fidx

\* a slip that pushes the text message before the files are processed
EmailPushesTextFirst ==
    /\ route = "email" /\ fpc = "start"
    /\ IF Len(form.files) > 0
       THEN /\ messageArray' = <<TextMessage(form)>>
            /\ fidx' = 1
            /\ fpc' = "fromBuffer"
            /\ pushCalls' = <<TextMessage(form)>>
            /\ pushed' = <<TextMessage(form)>>
            /\ UNCHANGED pidx
       ELSE /\ NextFile(<<TextMessage(form)>>)
            /\ UNCHANGED pushed
    /\ UNCHANGED <<route, webhookVars, writes, response, form, fileType, objects, fthrown>>

\* The request arrives: the handler builds the text message and begins the
\* first file, or the pushes when there is no file (index.ts:210-226)
Email ==
    /\ route = "email" /\ fpc = "start"
    /\ IF Len(form.files) > 0
       THEN /\ messageArray' = <<TextMessage(form)>>
            /\ fidx' = 1
            /\ fpc' = "fromBuffer"
            /\ UNCHANGED <<pidx, pushCalls>>
       ELSE NextFile(<<TextMessage(form)>>)
    /\ UNCHANGED <<route, webhookVars, writes, response, form, fileType, objects, pushed,
                   fthrown>>

\* a slip that stores a file only when its sniffed type is one the switch
\* has a clause for
FromBufferReturnsSupportedOnly ==
    LET type == FileTypeFromBuffer(form.files[fidx].buffer).mime
    IN  /\ fpc = "fromBuffer"
        /\ fileType' = type
        /\ IF IsAudio(type) \/ Classify(type, <<>>) # <<>>
           THEN /\ fpc' = "save"
                /\ UNCHANGED <<fidx, messageArray, pidx, pushCalls>>
           ELSE NextFile(messageArray)
        /\ UNCHANGED <<route, webhookVars, writes, response, form, objects, pushed,
                       fthrown>>

\* a slip that takes the type the client declared for the part
FromBufferReturnsDeclared ==
    /\ fpc = "fromBuffer"
    /\ fileType' = form.files[fidx].mimetype
    /\ fpc' = "save"
    /\ UNCHANGED <<route, webhookVars, writes, response, form, fidx, messageArray,
                   objects, pidx, pushCalls, pushed, fthrown>>

\* FileType.fromBuffer answers; the handler names the object and calls save
\* (index.ts:226-230)
FromBufferReturns ==
    /\ fpc = "fromBuffer"
    /\ fileType' = FileTypeFromBuffer(form.files[fidx].buffer).mime
    /\ fpc' = "save"
    /\ UNCHANGED <<route, webhookVars, writes, response, form, fidx, messageArray,
                   objects, pidx, pushCalls, pushed, fthrown>>

\* gcsFile.save answers: the object is stored (index.ts:230-231)
SaveReturns ==
    /\ fpc = "save"
    /\ objects' = Append(objects, [name |-> CurrentName,
                                   content |-> form.files[fidx].buffer,
                                   public |-> FALSE])
    /\ fpc' = "makePublic"
    /\ UNCHANGED <<route, webhookVars, writes, response, form, fidx, fileType,
                   messageArray, pidx, pushCalls, pushed, fthrown>>

\* An awaited call of the handler fails: the handler throws, and nothing in
\* index.ts answers the request
HandlerThrows ==
    /\ fpc' = "rejected"
    /\ fthrown' = fpc
    /\ UNCHANGED <<route, webhookVars, writes, response, form, fidx, fileType,
                   messageArray, objects, pidx, pushCalls, pushed>>

\* FileType.fromBuffer fails
FromBufferThrows ==
    /\ fpc = "fromBuffer"
    /\ HandlerThrows

\* a slip that catches the failure of gcsFile.save and goes on with the
\* next file
SaveThrowsSkipsFile ==
    /\ fpc = "save"
    /\ fthrown' = "save"
    /\ NextFile(messageArray)
    /\ UNCHANGED <<route, webhookVars, writes, response, form, fileType, objects, pushed>>

\* gcsFile.save fails
SaveThrows ==
    /\ fpc = "save"
    /\ HandlerThrows

\* gcsFile.makePublic answers; the handler takes the URL and classifies the
\* file (index.ts:231-269)
MakePublicReturns ==
    /\ fpc = "makePublic"
    /\ objects' = [objects EXCEPT ![Len(objects)].public = TRUE]
    /\ IF IsAudio(fileType)
       THEN /\ fpc' = "parseBuffer"
            /\ UNCHANGED <<fidx, messageArray, pidx, pushCalls>>
       ELSE NextFile(ArrayPush(messageArray, Classify(fileType, publicUrl(CurrentName))))
    /\ UNCHANGED <<route, webhookVars, writes, response, form, fileType, pushed, fthrown>>

\* gcsFile.makePublic fails
MakePublicThrows ==
    /\ fpc = "makePublic"
    /\ HandlerThrows

\* mm.parseBuffer answers (index.ts:255-265)
ParseBufferReturns ==
    /\ fpc = "parseBuffer"
    /\ NextFile(ArrayPush(messageArray,
                          << AudioMessage(publicUrl(CurrentName),
                                          parseBuffer(form.files[fidx].buffer)) >>))
    /\ UNCHANGED <<route, webhookVars, writes, response, form, fileType, objects, pushed,
                   fthrown>>

\* mm.parseBuffer fails
ParseBufferThrows ==
    /\ fpc = "parseBuffer"
    /\ HandlerThrows

\* client.pushMessage answers: the next message is pushed, or the handler
\* responds (index.ts:275-280)
PushMessageReturns ==
    /\ fpc = "pushMessage"
    /\ pushed' = Append(pushed, messageArray[pidx])
    /\ IF pidx < Len(messageArray)
       THEN /\ pidx' = pidx + 1
            /\ pushCalls' = Append(pushCalls, messageArray[pidx + 1])
            /\ UNCHANGED <<fpc, writes, response>>
       ELSE /\ fpc' = "done"
            /\ writes' = Append(writes, 200)
            /\ response' = <<[status |-> 200, body |-> <<>>]>>
            /\ UNCHANGED <<pidx, pushCalls>>
    /\ UNCHANGED <<route, webhookVars, form, fidx, fileType, messageArray, objects, fthrown>>

\* a slip that catches the failure of client.pushMessage and goes on with
\* the next message
PushMessageThrowsGoesOn ==
    /\ fpc = "pushMessage"
    /\ fthrown' = "pushMessage"
    /\ IF pidx < Len(messageArray)
       THEN /\ pidx' = pidx + 1
            /\ pushCalls' = Append(pushCalls, messageArray[pidx + 1])
            /\ UNCHANGED <<fpc, writes, response>>
       ELSE /\ fpc' = "done"
            /\ writes' = Append(writes, 200)
            /\ response' = <<[status |-> 200, body |-> <<>>]>>
            /\ UNCHANGED <<pidx, pushCalls>>
    /\ UNCHANGED <<route, webhookVars, form, fidx, fileType, messageArray, objects, pushed>>

\* client.pushMessage fails
PushMessageThrows ==
    /\ fpc = "pushMessage"
    /\ HandlerThrows

vars == <<route, webhookVars, writes, response, emailVars>>

\* a webhook delivery
InitWebhook ==
    /\ route = "webhook"
    /\ sigValid \in BOOLEAN
    /\ events \in Batches
    /\ hpc = "start"
    /\ form = [from |-> "", subject |-> "", text |-> "", files |-> <<>>]
    /\ fpc = "idle"

\* a form submission
InitEmail ==
    /\ route = "email"
    /\ sigValid = TRUE
    /\ events = <<>>
    /\ hpc = "idle"
    /\ form \in FormInputs
    /\ fpc = "start"

Init ==
    /\ InitWebhook \/ InitEmail
    /\ evpc = [i \in Indexes |-> "init"]
    /\ msg = [i \in Indexes |-> NoMsg]
    /\ thrown = [i \in Indexes |-> Undefined]
    /\ results = [i \in Indexes |-> "pending"]
    /\ profileCalls = [i \in Indexes |-> <<>>]
    /\ contentCalls = [i \in Indexes |-> <<>>]
    /\ sendCalls = [i \in Indexes |-> <<>>]
    /\ writes = <<>>
    /\ response = <<>>
    /\ fidx = 0
    /\ fileType = Undefined
    /\ messageArray = <<>>
    /\ objects = <<>>
    /\ pidx = 0
    /\ pushCalls = <<>>
    /\ pushed = <<>>
    /\ fthrown = Undefined

Next ==
    \/ Webhook
    \/ \E i \in Indexes : ProfileReturns(i)
    \/ \E i \in Indexes : ProfileThrows(i)
    \/ \E i \in Indexes : ContentReturns(i)
    \/ \E i \in Indexes : ContentThrows(i)
    \/ \E i \in Indexes : SendReturns(i)
    \/ \E i \in Indexes : SendThrows(i)
    \/ Email
    \/ FromBufferReturns
    \/ FromBufferThrows
    \/ SaveReturns
    \/ SaveThrows
    \/ MakePublicReturns
    \/ MakePublicThrows
    \/ ParseBufferReturns
    \/ ParseBufferThrows
    \/ PushMessageReturns
    \/ PushMessageThrows

Spec == Init /\ [][Next]_vars

\* ================================================================ claims
Settled(p) == p \in {"resolved", "returnedRes", "rejected"}

Last(q) == q[Len(q)]

HandledKinds == {"text", "image", "video", "audio", "file", "sticker"}

\* C1: a webhook request that passed signature verification is answered
\* with HTTP 200, status "success" and a results list with one slot per
\* event, whichever of its events failed.
C1_AnsweredWith200 ==
    (route = "webhook" /\ sigValid /\ hpc \in {"done", "rejected"})
        => /\ Len(response) = 1
           /\ response[1].status = 200
           /\ response[1].body.status = "success"
           /\ DOMAIN response[1].body.results = Indexes

\* C2: on one webhook request res.json is called exactly once: never by
\* the error path of an event, and once for the aggregated response.
C2_ExactlyOneWrite ==
    route = "webhook"
        => /\ Len(writes) <= 1
           /\ hpc \in {"done", "rejected"} => writes = <<200>>

\* C3: an event whose handler throws does not block its siblings.  The
\* step in which an event throws leaves every sibling's handler, msg, calls
\* and result as they were; a sibling that awaits a call can still resume
\* when the call answers; and a message event of a handled kind none of
\* whose own calls failed ends resolved, with its email sent.
C3_SiblingsNotBlocked ==
    /\ [](\A j \in Indexes :
            /\ (Awaiting(evpc[j]) /\ \E k \in Indexes \ {j} : thrown[k] # Undefined)
                 => Runnable(j, evpc[j])
            /\ (Settled(evpc[j]) /\ thrown[j] = Undefined
                  /\ events[j].type = "message"
                  /\ events[j].message.type \in HandledKinds)
                 => /\ evpc[j] = "resolved"
                    /\ Len(sendCalls[j]) = 1
                    /\ results[j] = "undefined")
    /\ [][\A k \in Indexes :
            (thrown[k] = Undefined /\ thrown'[k] # Undefined)
                => \A j \in Indexes \ {k} :
                      /\ evpc'[j] = evpc[j]
                      /\ msg'[j] = msg[j]
                      /\ thrown'[j] = thrown[j]
                      /\ results'[j] = results[j]
                      /\ sendCalls'[j] = sendCalls[j]
                      /\ contentCalls'[j] = contentCalls[j]]_vars

\* event 2 of 3 threw during the profile fetch, events 1 and 3 sent their email
C3_Witness ==
    /\ Len(events) = 3
    /\ thrown[2] = "getProfile"
    /\ \A j \in {1, 3} :
          /\ events[j].type = "message"
          /\ thrown[j] = Undefined
          /\ evpc[j] = "resolved"
          /\ Len(sendCalls[j]) = 1

\* the label line of a media kind (index.ts:119-141)
KindLabel(kind) ==
    CASE kind = "image" -> LabelImage
      [] kind = "video" -> LabelVideo
      [] kind = "audio" -> LabelAudio
      [] kind = "file" -> LabelFile

\* C4: the body of the email sent for an image, video, audio or file event
\* ends with the label line of that event's own kind.
C4_BodyEndsWithKindLabel ==
    \A i \in Indexes :
        \A k \in 1 .. Len(sendCalls[i]) :
            events[i].message.type \in MediaKinds
                => Last(sendCalls[i][k].text) = KindLabel(events[i].message.type)

\* C5: the email sent for an image, video, audio or file event carries
\* exactly one attachment; its content is the base64 text of the bytes
\* fetched for the event's own message id, and its type is the Content-Type
\* header of the fetch response (the empty string when there is none).
C5_OneAttachment ==
    \A i \in Indexes :
        \A k \in 1 .. Len(sendCalls[i]) :
            events[i].message.type \in MediaKinds
                => LET m == sendCalls[i][k]
                       res == fetch(events[i].message.id)
                   IN  /\ Len(m.attachments) = 1
                       /\ Base64Decode(m.attachments[1].content) = res.body
                       /\ Len(m.attachments[1].content) = 4 * ((Len(res.body) + 2) \div 3)
                       /\ m.attachments[1].type =
                            IF res.contentType = Undefined THEN "" ELSE res.contentType

\* a video event of a known user was sent with content that needs padding
C5_Witness ==
    \E i \in Indexes :
        /\ events[i].message.type = "video"
        /\ events[i].source.userId = "U2"
        /\ events[i].message.id = "m2"
        /\ evpc[i] = "resolved"
        /\ Len(sendCalls[i]) = 1
        /\ Len(sendCalls[i][1].attachments) = 1

\* the greeting line an event calls for
GreetingLine(event) ==
    IF event.source.userId = "U1" THEN "Alicesan kara no messeeji"
    ELSE IF event.source.userId = "U2" THEN "Bobsan kara no messeeji"
    ELSE "yuuzaa kara no messeeji"

\* C6: the email sent for a text or sticker event has no attachment, and its
\* body is the greeting line, a blank line, then the message text (text) or
\* the sticker label (sticker); the greeting names the user's display name
\* when the source carries a user id and the generic user otherwise.
C6_TextAndStickerBody ==
    \A i \in Indexes :
        \A k \in 1 .. Len(sendCalls[i]) :
            LET m == sendCalls[i][k]
                kind == events[i].message.type
            IN  kind \in {"text", "sticker"}
                    => /\ m.attachments = <<>>
                       /\ m.text # <<>>
                       /\ m.text = << GreetingLine(events[i]), "",
                                      IF kind = "text" THEN events[i].message.text
                                      ELSE "sutanpu" >>

\* a text event of a known user was sent
C6_Witness ==
    \E i \in Indexes :
        /\ events[i].message.type = "text"
        /\ events[i].source.userId = "U1"
        /\ evpc[i] = "resolved"
        /\ Len(sendCalls[i]) = 1

\* C7: a message event whose kind is none of the six handled kinds is
\* dropped: no email send and no content fetch is made for it.
C7_UnhandledKindDropped ==
    \A i \in Indexes :
        (events[i].type = "message" /\ events[i].message.type \notin HandledKinds)
            => /\ sendCalls[i] = <<>>
               /\ contentCalls[i] = <<>>
               /\ evpc[i] \notin {"getContent", "send"}

\* an event of an unhandled kind went through its profile fetch and returned
C7_Witness ==
    \E i \in Indexes :
        /\ events[i].type = "message"
        /\ events[i].message.type = "location"
        /\ profileCalls[i] = <<"U1">>
        /\ evpc[i] = "resolved"

\* C8: every event has caused at most one email send call, and an event
\* whose type is not "message" causes no profile fetch, no content fetch, no
\* send and no error.
C8_AtMostOneSend ==
    \A i \in Indexes :
        /\ Len(sendCalls[i]) <= 1
        /\ events[i].type # "message"
             => /\ profileCalls[i] = <<>>
                /\ contentCalls[i] = <<>>
                /\ sendCalls[i] = <<>>
                /\ thrown[i] = Undefined
                /\ hpc \in {"awaitAll", "done", "rejected"}
                     => (evpc[i] = "resolved" /\ results[i] = "undefined")

\* a batch with an event that is no message, whose sibling sent its email
C8_Witness ==
    \E i, j \in Indexes :
        /\ events[i].type # "message"
        /\ events[i].source.userId # Undefined
        /\ evpc[i] = "resolved"
        /\ events[j].type = "message"
        /\ evpc[j] = "resolved"
        /\ Len(sendCalls[j]) = 1

\* ------------------------------------------------------- form submissions
IsPrefix(p, q) == Len(p) <= Len(q) /\ p = SubSeq(q, 1, Len(p))

\* every file of the submission is stored and public
AllUploaded ==
    /\ Len(objects) = Len(form.files)
    /\ \A n \in 1 .. Len(objects) : objects[n].public

SupportedTypes ==
    {"image/jpeg", "image/png", "video/mp4", "video/x-m4v", "audio/mp4", "audio/x-m4a"}

\* the files for which a message is due
SupportedFiles ==
    {n \in 1 .. Len(form.files) :
        FileTypeFromBuffer(form.files[n].buffer).mime \in SupportedTypes}

\* the number of the file a media message was built for, read from its URL
FileOf(message) == message.originalContentUrl[3]

\* C9 as stated: when the uploads of a submission have all succeeded, the
\* push calls issued are exactly the elements of the built sequence, in
\* order, the text message first.
C9_PushesAreTheSequence ==
    (route = "email" /\ fpc \in {"done", "rejected"} /\ AllUploaded)
        => /\ pushCalls = messageArray
           /\ Len(pushCalls) = 1 + Cardinality(SupportedFiles)

\* C9 as amended: the push calls issued are always a prefix of the built
\* sequence, one call per element in array order; when the uploads, the
\* metadata parses and the pushes of a submission have all succeeded (the
\* handler responds), they are exactly the built sequence: the text message
\* "From: {from}\nSubject: {subject}\n\n{text}" first, then one media
\* message per supported file, in the order of the files; with no file,
\* exactly one push.
C9_PushesInArrayOrder ==
    route = "email"
        => /\ (fpc \in {"pushMessage", "done"} \/ pushCalls # <<>>)
                => /\ IsPrefix(pushCalls, messageArray)
                   /\ IsPrefix(pushed, pushCalls)
                   /\ Len(pushCalls) <= Len(pushed) + 1
                   /\ pushCalls[1] =
                        [type |-> "text",
                         text |-> << "From: " \o form.from,
                                     "Subject: " \o form.subject, "", form.text >>]
           /\ fpc \notin {"pushMessage", "done"} /\ pidx = 0 => pushCalls = <<>>
           /\ fpc = "done"
                => /\ pushCalls = messageArray
                   /\ pushed = messageArray
                   /\ Len(pushCalls) = 1 + Cardinality(SupportedFiles)
                   /\ \A a, b \in 2 .. Len(pushCalls) :
                        a < b => FileOf(pushCalls[a]) < FileOf(pushCalls[b])
                   /\ \A a \in 2 .. Len(pushCalls) : FileOf(pushCalls[a]) \in SupportedFiles

\* a submission of two supported files was pushed whole: three pushes
C9_Witness ==
    /\ fpc = "done"
    /\ Len(form.files) = 2
    /\ Len(pushed) = 3
    /\ pushed[2].type = "audio"
    /\ pushed[3].type = "image"

\* the kind of message a sniffed type calls for
KindOfType(type) ==
    CASE type \in {"image/jpeg", "image/png"} -> "image"
      [] type \in {"video/mp4", "video/x-m4v"} -> "video"
      [] type \in {"audio/mp4", "audio/x-m4a"} -> "audio"
      [] OTHER -> "none"

\* the files the loop has finished with
Processed ==
    IF fpc \in {"pushMessage", "done"} \/ pidx > 0 THEN 1 .. Len(form.files)
    ELSE 1 .. (fidx - 1)

\* C10: the message appended for an uploaded file is the one its sniffed
\* type calls for: an image message for image/jpeg and image/png, a video
\* message for video/mp4 and video/x-m4v, each with originalContentUrl and
\* previewImageUrl equal to the public URL of the file's own object, an audio
\* message with that URL as originalContentUrl for audio/mp4 and
\* audio/x-m4a; a submission of one JPEG file pushes two messages, the text
\* and the image.
C10_MessageBySniffedType ==
    route = "email"
        => /\ \A a \in 2 .. Len(messageArray) :
                LET m == messageArray[a]
                    n == FileOf(m)
                    f == form.files[n]
                IN  /\ n \in 1 .. Len(form.files)
                    /\ m.type = KindOfType(FileTypeFromBuffer(f.buffer).mime)
                    /\ objects[n].content = f.buffer
                    /\ objects[n].public
                    /\ m.originalContentUrl =
                         <<"https://storage.googleapis.com/bucket/">> \o objects[n].name
                    /\ m.type \in {"image", "video"}
                         => m.previewImageUrl = m.originalContentUrl
           /\ \A n \in Processed \cap SupportedFiles :
                Cardinality({a \in 2 .. Len(messageArray) : FileOf(messageArray[a]) = n}) = 1
           /\ (fpc = "done" /\ Len(form.files) = 1 /\ form.files[1].buffer = "jpg")
                => /\ Len(pushed) = 2
                   /\ pushed[1].type = "text"
                   /\ pushed[2] =
                        [type |-> "image",
                         originalContentUrl |-> publicUrl(objects[1].name),
                         previewImageUrl |-> publicUrl(objects[1].name)]

\* a submission of one JPEG file, declared as text, was pushed whole
C10_Witness ==
    /\ fpc = "done"
    /\ Len(form.files) = 1
    /\ form.files[1].buffer = "jpg"
    /\ form.files[1].mimetype = "text/plain"
    /\ Len(pushed) = 2

\* the files whose content shows none of the six supported types, those
\* whose content shows no type at all included
UnsupportedFiles == (1 .. Len(form.files)) \ SupportedFiles

\* C11: a file whose sniffed type is not one of the six supported types (or
\* cannot be sniffed) gets no message: classifying it leaves messageArray as
\* it is and raises no error, the loop going on with the next file or with
\* the pushes; no message of messageArray, and no push, is ever for such a
\* file; and when the handler responds, the text message and the messages
\* of the supported files have been pushed all the same.
C11_UnsupportedFileSkipped ==
    /\ [](route = "email"
            => /\ \A a \in 2 .. Len(messageArray) :
                    FileOf(messageArray[a]) \notin UnsupportedFiles
               /\ \A a \in 2 .. Len(pushCalls) :
                    FileOf(pushCalls[a]) \notin UnsupportedFiles
               /\ (fpc = "done" /\ UnsupportedFiles # {})
                    => /\ pushed[1] = TextMessage(form)
                       /\ Len(pushed) = 1 + Cardinality(SupportedFiles)
                       /\ \A n \in SupportedFiles :
                            \E a \in 2 .. Len(pushed) : FileOf(pushed[a]) = n)
    /\ [][(fpc = "makePublic" /\ fidx \in UnsupportedFiles /\ objects' # objects)
            => /\ messageArray' = messageArray
               /\ fpc' \in {"fromBuffer", "pushMessage"}
               /\ fthrown' = Undefined]_vars

\* a submission of a file of no recognisable type and a JPEG file was
\* pushed whole: the text and the image
C11_Witness ==
    /\ fpc = "done"
    /\ Len(form.files) = 2
    /\ form.files[1].buffer = "txt"
    /\ form.files[2].buffer = "jpg"
    /\ Len(pushed) = 2
    /\ pushed[2].type = "image"

\* C12: when the storage write of a file fails, the handler throws there:
\* the file is not stored and gets no message, no later file is sniffed,
\* stored or classified (the handler takes no further step), nothing is
\* pushed, and the request fails as a whole with no success response.
C12_SaveFailureAborts ==
    /\ [](fthrown = "save"
            => /\ fpc = "rejected"
               /\ fidx \in 1 .. Len(form.files)
               /\ Len(objects) = fidx - 1
               /\ \A a \in 2 .. Len(messageArray) : FileOf(messageArray[a]) < fidx
               /\ pushCalls = <<>>
               /\ \A w \in 1 .. Len(response) : response[w].status # 200
               /\ \A w \in 1 .. Len(writes) : writes[w] # 200)
    /\ [][fthrown = "save" => UNCHANGED vars]_vars

\* the storage write of the first of two files has failed
C12_Witness ==
    /\ fthrown = "save"
    /\ fidx = 1
    /\ Len(form.files) = 2
    /\ form.files[2].buffer = "jpg"
    /\ fpc = "rejected"

\* C13: a POST /email request whose handler has ended has received exactly
\* one response: HTTP 200 with an empty body when every upload and every
\* push succeeded, written after the last push, and an error status when a
\* storage write, a make-public, a metadata parse or a push failed.
C13_ExactlyOneResponse ==
    (route = "email" /\ fpc \in {"done", "rejected"})
        => /\ Len(writes) = 1
           /\ Len(response) = 1
           /\ response[1].status = 200
                <=> /\ fthrown = Undefined
                    /\ AllUploaded
                    /\ pushed = messageArray
           /\ response[1].status = 200 => response[1].body = <<>>
           /\ fthrown # Undefined => response[1].status >= 400

\* the parsed duration, in seconds, of the audio file a message was built for
ParsedDuration(message) ==
    parseBuffer(form.files[FileOf(message)].buffer).format.duration

\* C14: the duration of the audio message of a file sniffed as audio/mp4 or
\* audio/x-m4a is D * 1000, a whole number of milliseconds, when the parsed
\* metadata gives a duration of D seconds, and 0 when it gives none.
C14_DurationIntegerMillis ==
    route = "email"
        => \A a \in 2 .. Len(messageArray) :
              LET m == messageArray[a]
              IN  m.type = "audio"
                    => /\ m.duration % Unit = 0
                       /\ ParsedDuration(m) = NoNumber => m.duration = 0
                       /\ ParsedDuration(m) # NoNumber
                            => m.duration = ParsedDuration(m) * 1000

\* C15: when the profile fetch of a message event that carries a user id
\* fails, the failure is the event's error: the callback goes to its catch
\* clause (it settles holding the error response or rejected, never with
\* undefined), no msg is built, and no content fetch and no send is issued
\* for the event, whatever its message kind; no msg handed to the mailer for
\* an event with a user id ever opens with the generic greeting.
C15_ProfileFailurePropagates ==
    (route = "webhook" /\ hpc \in {"awaitAll", "done", "rejected"})
        => \A i \in Indexes :
              /\ thrown[i] = "getProfile"
                    => /\ events[i].type = "message"
                       /\ events[i].source.userId # Undefined
                       /\ evpc[i] \in {"returnedRes", "rejected"}
                       /\ results[i] # "undefined"
                       /\ Len(writes) >= 1
                       /\ msg[i] = NoMsg
                       /\ profileCalls[i] = <<events[i].source.userId>>
                       /\ contentCalls[i] = <<>>
                       /\ sendCalls[i] = <<>>
              /\ events[i].source.userId # Undefined
                    => \A s \in 1 .. Len(sendCalls[i]) :
                          sendCalls[i][s].text[1] # "yuuzaa kara no messeeji"

\* the profile fetch of a media event and that of a text event have failed
C15_Witness ==
    /\ Len(events) = 2
    /\ events[1].message.type = "video"
    /\ events[2].message.type = "text"
    /\ thrown[1] = "getProfile"
    /\ thrown[2] = "getProfile"
    /\ Settled(evpc[1])
    /\ Settled(evpc[2])

\* C16: the response to a webhook batch is written only when the handler of
\* every event of the batch has settled: while some event of the batch is
\* still in flight no response has been written, whether or not another
\* event has failed.
C16_ResponseAfterAllSettled ==
    (route = "webhook" /\ sigValid /\ (response # <<>> \/ writes # <<>>))
        => \A j \in Indexes : Settled(evpc[j])

\* the content types a client declares for a part
DeclaredTypes == {f.mimetype : f \in FileInputs}

\* the submissions that are form but for the declared types of their files
Variants(f) ==
    {g \in {[f EXCEPT !.files = [n \in 1 .. Len(f.files) |->
                                   [f.files[n] EXCEPT !.mimetype = d[n]]]] :
              d \in [1 .. Len(f.files) -> DeclaredTypes]} :
        \A n \in 1 .. Len(g.files) : g.files[n] \in FileInputs}

\* the kinds of the messages due for a submission's first k files, the text
\* message first
ExpectedKinds(g, k) ==
    <<"text">> \o
    SelectSeq([n \in 1 .. k |-> KindOfType(FileTypeFromBuffer(g.files[n].buffer).mime)],
              LAMBDA kind : kind # "none")

KindsOf(messages) == [a \in 1 .. Len(messages) |-> messages[a].type]

\* C17: the messages of a submission do not depend on the content types
\* declared for its files: at every point of the run the kinds of the built
\* messages, and the pushes, are those due for any submission that differs
\* from this one in the declared types only (so two such submissions, under
\* the same results of the collaborators, give the same sequence of kinds
\* and the same pushes).
C17_DeclaredTypeIgnored ==
    (route = "email" /\ fpc # "start")
        => \A g \in Variants(form) :
              LET k == Cardinality(Processed)
              IN  /\ KindsOf(messageArray) = ExpectedKinds(g, k)
                  /\ messageArray[1] = TextMessage(g)
                  /\ \A a \in 2 .. Len(messageArray) :
                        LET n == FileOf(messageArray[a])
                        IN  /\ messageArray[a].originalContentUrl =
                                  publicUrl(ObjectName(n, g.files[n].originalname))
                            /\ messageArray[a].type =
                                  KindOfType(FileTypeFromBuffer(g.files[n].buffer).mime)
                  /\ IsPrefix(pushCalls, messageArray)
                  /\ IsPrefix(pushed, pushCalls)
                  /\ fpc = "done" => KindsOf(pushed) = ExpectedKinds(g, Len(g.files))

\* a submission of a JPEG file declared as text and a PDF file declared as
\* JPEG was pushed whole: the text and one image, for the first file
C17_Witness ==
    /\ fpc = "done"
    /\ Len(form.files) = 2
    /\ form.files[1] = [buffer |-> "jpg", originalname |-> "a.bin", mimetype |-> "text/plain"]
    /\ form.files[2] = [buffer |-> "pdf", originalname |-> "a.bin", mimetype |-> "image/jpeg"]
    /\ Cardinality(Variants(form)) = 4
    /\ KindsOf(pushed) = <<"text", "image">>
    /\ FileOf(pushed[2]) = 1

\* the steps of the loop over the files
FileSteps == {"fromBuffer", "save", "makePublic", "parseBuffer"}

\* C18: no push is issued before every file of the submission has been
\* sniffed, stored, made public and classified: while the loop over the
\* files runs, and when one of its steps has failed for some file, the
\* number of push calls of the request is zero, the text message included;
\* a first push call is issued only by a step that leaves the loop with
\* every file stored and public, so no upload failure follows a push.
C18_NoPushBeforeAllFiles ==
    /\ [](route = "email"
            => /\ (fpc \in FileSteps \/ fthrown \in FileSteps)
                    => pushCalls = <<>> /\ pushed = <<>> /\ pidx = 0
               /\ pushCalls # <<>>
                    => /\ AllUploaded
                       /\ Processed = 1 .. Len(form.files)
                       /\ fthrown \in {Undefined, "pushMessage"}
                       /\ Len(messageArray) = 1 + Cardinality(SupportedFiles))
    /\ [][(pushCalls = <<>> /\ pushCalls' # <<>>)
            => /\ Len(objects') = Len(form.files)
               /\ \A n \in 1 .. Len(objects') : objects'[n].public
               /\ fpc' = "pushMessage"]_vars

\* the first file of a submission was stored, made public and classified,
\* then making the second one public failed: nothing was pushed
C18_Witness ==
    /\ fthrown = "makePublic"
    /\ fidx = 2
    /\ Len(objects) = 2
    /\ objects[1].public
    /\ Len(messageArray) = 2
    /\ pushCalls = <<>>
    /\ pushed = <<>>

\* C19: when a push call fails, the messages pushed are exactly the
\* elements of the sequence before the failing one, a proper prefix of it;
\* the failing element was given to the client once and no later element at
\* all (the handler takes no further step: no retry), the stored objects
\* stay as they are (no rollback), and no 200 response is sent.
C19_PushFailureKeepsPrefix ==
    /\ [](fthrown = "pushMessage"
            => /\ fpc = "rejected"
               /\ pidx \in 1 .. Len(messageArray)
               /\ pushed = SubSeq(messageArray, 1, pidx - 1)
               /\ pushCalls = SubSeq(messageArray, 1, pidx)
               /\ Len(pushed) < Len(messageArray)
               /\ AllUploaded
               /\ \A w \in 1 .. Len(response) : response[w].status # 200
               /\ \A w \in 1 .. Len(writes) : writes[w] # 200)
    /\ [][fthrown = "pushMessage" => UNCHANGED vars]_vars

\* of the three messages of a submission the first was pushed and the push
\* of the second failed
C19_Witness ==
    /\ fthrown = "pushMessage"
    /\ Len(messageArray) = 3
    /\ pidx = 2
    /\ pushed = <<messageArray[1]>>
    /\ Len(pushCalls) = 2

\* the stored objects that are publicly readable
PublicObjects == {n \in 1 .. Len(objects) : objects[n].public}

\* C20: every file of a submission is stored and made public before it is
\* classified, whatever its sniffed type: a file the loop has finished with,
\* or whose audio metadata is being parsed, has its own public object
\* holding its content; when no step fails (the handler responds), the
\* number of public objects the request created equals the number of files
\* submitted, the files of unsupported type, for which nothing is pushed,
\* included.
C20_EveryFileStoredAndPublic ==
    route = "email"
        => /\ Len(objects) <= Len(form.files)
           /\ \A n \in Processed \cup (IF fpc = "parseBuffer" THEN {fidx} ELSE {}) :
                /\ n \in PublicObjects
                /\ objects[n].content = form.files[n].buffer
                /\ objects[n].name = <<"line-to-email/", n, "-", form.files[n].originalname>>
           /\ fpc = "done"
                => /\ Cardinality(PublicObjects) = Len(form.files)
                   /\ Len(objects) = Len(form.files)
                   /\ Len(pushed) = 1 + Len(form.files) - Cardinality(UnsupportedFiles)

\* a submission of a PDF file and a file of no recognisable type was
\* handled whole: two public objects, one push
C20_Witness ==
    /\ fpc = "done"
    /\ Len(form.files) = 2
    /\ form.files[1].buffer = "pdf"
    /\ form.files[2].buffer = "txt"
    /\ PublicObjects = {1, 2}
    /\ Len(pushed) = 1
====
